---------------------------- MODULE Spec2Model ----------------------------
(***************************************************************************)
(* A model of HackAssembler.cpp: the Hack assembler of Nand to Tetris.     *)
(*                                                                         *)
(* A std::string is a sequence of one-character strings, so that find,     *)
(* substr and the character tests of the source are computed, not assumed. *)
(* The input file is the sequence of its lines (the text split at '\n').   *)
(* main() reads it three times; one action is one iteration of one of the  *)
(* three while loops, or the code between two loops.                       *)
(***************************************************************************)
EXTENDS Integers, Sequences, FiniteSets, TLC

VARIABLES
    lines,      \* the input file, one string per getline()
    pc,         \* where main() is: "pass1", "pass2", "pass3", "done"
    pos,        \* the lines the current Parser has read
    address,    \* `int address` of main(): next instruction / variable address
    symbolMap,  \* SymbolTable::symbolMap
    output      \* the lines written to outputFile

vars == <<lines, pc, pos, address, symbolMap, output>>

-----------------------------------------------------------------------------
(* std::string helpers *)

\* string::npos, which the source compares with -1
NPOS == -1

\* the printable ASCII characters, from ' ' (32) to '~' (126); character 96
\* cannot be written in a TLA+ string and no line of the model holds it
Printable ==
    <<" ","!","\"","#","$","%","&","'","(",")","*","+",",","-",".","/",
      "0","1","2","3","4","5","6","7","8","9",":",";","<","=",">","?",
      "@","A","B","C","D","E","F","G","H","I","J","K","L","M","N","O",
      "P","Q","R","S","T","U","V","W","X","Y","Z","[","\\","]","^","_",
      "backquote","a","b","c","d","e","f","g","h","i","j","k","l","m","n","o",
      "p","q","r","s","t","u","v","w","x","y","z","{","|","}","~">>

\* (int)c for a printable character c
Ord(c) == 31 + CHOOSE i \in 1..Len(Printable) : Printable[i] = c

\* s.find(c): the 0-based index of the first c in s, or npos
Find(s, c) ==
    IF \E i \in 1..Len(s) : s[i] = c
    THEN (CHOOSE i \in 1..Len(s) : s[i] = c /\ \A j \in 1..(i-1) : s[j] # c) - 1
    ELSE NPOS

\* s.find("//"): the 0-based index of the first "//" in s, or npos
FindComment(s) ==
    IF \E i \in 1..(Len(s)-1) : s[i] = "/" /\ s[i+1] = "/"
    THEN (CHOOSE i \in 1..(Len(s)-1) :
             /\ s[i] = "/" /\ s[i+1] = "/"
             /\ \A j \in 1..(i-1) : ~(s[j] = "/" /\ s[j+1] = "/")) - 1
    ELSE NPOS

\* s.substr(p, n) for p <= s.size(); n is a size_t, so a negative n of the
\* source's arithmetic is a huge count and the substring runs to the end
Substr(s, p, n) ==
    IF n < 0 \/ p + n > Len(s) THEN SubSeq(s, p + 1, Len(s))
    ELSE SubSeq(s, p + 1, p + n)

\* s.substr(p) for p <= s.size()
SubstrFrom(s, p) == SubSeq(s, p + 1, Len(s))

\* trim(): erases every ' ' of the string
trim(s) == SelectSeq(s, LAMBDA c : c # " ")

-----------------------------------------------------------------------------
(* class Code *)

\* Code::destMap as the constructor fills it
destMap ==
    <<"n","u","l","l">> :> <<"0","0","0">> @@
    <<"M">> :> <<"0","0","1">> @@
    <<"D">> :> <<"0","1","0">> @@
    <<"D","M">> :> <<"0","1","1">> @@
    <<"M","D">> :> <<"0","1","1">> @@
    <<"A">> :> <<"1","0","0">> @@
    <<"A","M">> :> <<"1","0","1">> @@
    <<"A","D">> :> <<"1","1","0">> @@
    <<"A","D","M">> :> <<"1","1","1">>

\* Code::compMap as the constructor fills it
compMap ==
    <<"0">> :> <<"1","0","1","0","1","0">> @@
    <<"1">> :> <<"1","1","1","1","1","1">> @@
    <<"-","1">> :> <<"1","1","1","0","1","0">> @@
    <<"D">> :> <<"0","0","1","1","0","0">> @@
    <<"A">> :> <<"1","1","0","0","0","0">> @@
    <<"M">> :> <<"1","1","0","0","0","0">> @@
    <<"!","D">> :> <<"0","0","1","1","0","1">> @@
    <<"!","A">> :> <<"1","1","0","0","0","1">> @@
    <<"!","M">> :> <<"1","1","0","0","0","1">> @@
    <<"-","D">> :> <<"0","0","1","1","1","1">> @@
    <<"-","A">> :> <<"1","1","0","0","1","1">> @@
    <<"-","M">> :> <<"1","1","0","0","1","1">> @@
    <<"D","+","1">> :> <<"0","1","1","1","1","1">> @@
    <<"A","+","1">> :> <<"1","1","0","1","1","1">> @@
    <<"M","+","1">> :> <<"1","1","0","1","1","1">> @@
    <<"D","-","1">> :> <<"0","0","1","1","1","0">> @@
    <<"A","-","1">> :> <<"1","1","0","0","1","0">> @@
    <<"M","-","1">> :> <<"1","1","0","0","1","0">> @@
    <<"D","+","A">> :> <<"0","0","0","0","1","0">> @@
    <<"D","+","M">> :> <<"0","0","0","0","1","0">> @@
    <<"D","-","A">> :> <<"0","1","0","0","1","1">> @@
    <<"D","-","M">> :> <<"0","1","0","0","1","1">> @@
    <<"A","-","D">> :> <<"0","0","0","1","1","1">> @@
    <<"M","-","D">> :> <<"0","0","0","1","1","1">> @@
    <<"D","&","A">> :> <<"0","0","0","0","0","0">> @@
    <<"D","&","M">> :> <<"0","0","0","0","0","0">> @@
    <<"D","|","A">> :> <<"0","1","0","1","0","1">> @@
    <<"D","|","M">> :> <<"0","1","0","1","0","1">>

\* Code::jumpMap as the constructor fills it
jumpMap ==
    <<"n","u","l","l">> :> <<"0","0","0">> @@
    <<"J","G","T">> :> <<"0","0","1">> @@
    <<"J","E","Q">> :> <<"0","1","0">> @@
    <<"J","G","E">> :> <<"0","1","1">> @@
    <<"J","L","T">> :> <<"1","0","0">> @@
    <<"J","N","E">> :> <<"1","0","1">> @@
    <<"J","L","E">> :> <<"1","1","0">> @@
    <<"J","M","P">> :> <<"1","1","1">>

\* unordered_map<string,string>::operator[] : the value of a key, and the
\* empty string for a key the map does not hold (the key it then inserts
\* maps to the empty string too, so a lookup never changes a later lookup)
Lookup(map, k) == IF k \in DOMAIN map THEN map[k] ELSE <<>>

\* Code::dest
Code_dest(d) == Lookup(destMap, d)

\* Code::comp
Code_comp(c) ==
    IF Find(c, "M") = NPOS THEN <<"0">> \o Lookup(compMap, c)
    ELSE <<"1">> \o Lookup(compMap, c)

\* Code::jump
Code_jump(j) == Lookup(jumpMap, j)

-----------------------------------------------------------------------------
(* class SymbolTable *)

\* SymbolTable::symbolMap as the constructor fills it
InitSymbolMap ==
    <<"S","P">> :> 0 @@
    <<"L","C","L">> :> 1 @@
    <<"A","R","G">> :> 2 @@
    <<"T","H","I","S">> :> 3 @@
    <<"T","H","A","T">> :> 4 @@
    <<"R","0">> :> 0 @@
    <<"R","1">> :> 1 @@
    <<"R","2">> :> 2 @@
    <<"R","3">> :> 3 @@
    <<"R","4">> :> 4 @@
    <<"R","5">> :> 5 @@
    <<"R","6">> :> 6 @@
    <<"R","7">> :> 7 @@
    <<"R","8">> :> 8 @@
    <<"R","9">> :> 9 @@
    <<"R","1","0">> :> 10 @@
    <<"R","1","1">> :> 11 @@
    <<"R","1","2">> :> 12 @@
    <<"R","1","3">> :> 13 @@
    <<"R","1","4">> :> 14 @@
    <<"R","1","5">> :> 15 @@
    <<"S","C","R","E","E","N">> :> 16384 @@
    <<"K","B","D">> :> 24576

\* SymbolTable::contains
contains(map, s) == s \in DOMAIN map

\* SymbolTable::getAddress: operator[] value-initialises an absent key to 0
getAddress(map, s) == IF s \in DOMAIN map THEN map[s] ELSE 0

\* the table after getAddress(s): operator[] inserts an absent key
AfterGetAddress(map, s) == IF s \in DOMAIN map THEN map ELSE (s :> 0) @@ map

\* SymbolTable::addEntry: symbolMap[s] = a
addEntry(map, s, a) == (s :> a) @@ map

-----------------------------------------------------------------------------
(* class Parser *)

A_INSTRUCTION == 1
C_INSTRUCTION == 2
L_INSTRUCTION == 3

\* Parser::instructionType
instructionType(line) ==
    IF Find(line, "@") # NPOS THEN A_INSTRUCTION
    ELSE IF Find(line, "(") # NPOS /\ Find(line, ")") # NPOS THEN L_INSTRUCTION
    ELSE C_INSTRUCTION

\* Parser::symbol
symbol(line) ==
    IF Find(line, "@") # NPOS THEN SubstrFrom(line, Find(line, "@") + 1)
    ELSE Substr(line, Find(line, "(") + 1, Find(line, ")") - 1)

\* Parser::dest
Parser_dest(line) ==
    IF Find(line, "=") = NPOS THEN <<"n","u","l","l">>
    ELSE Substr(line, 0, Find(line, "="))

\* Parser::comp
Parser_comp(line) ==
    IF Find(line, "=") = NPOS
    THEN IF Find(line, ";") = NPOS THEN line
         ELSE Substr(line, 0, Find(line, ";"))
    ELSE IF Find(line, ";") = NPOS THEN SubstrFrom(line, Find(line, "=") + 1)
         ELSE Substr(line, Find(line, "=") + 1,
                     Find(line, ";") - Find(line, "=") - 1)

\* Parser::jump
Parser_jump(line) ==
    IF Find(line, ";") = NPOS THEN <<"n","u","l","l">>
    ELSE SubstrFrom(line, Find(line, ";") + 1)

-----------------------------------------------------------------------------
(* free functions *)

\* AllisNum: every character is one of '0' (48) .. '9' (57)
AllisNum(str) == \A i \in 1..Len(str) : Ord(str[i]) >= 48 /\ Ord(str[i]) <= 57

\* the loop of stonum from character i on, num being the value so far
RECURSIVE stonumFrom(_, _, _), stonum_NoRangeTest(_)
stonumFrom(str, i, num) ==
    IF i > Len(str) THEN num
    ELSE LET n == num * 10 + Ord(str[i]) - 48
         IN  IF n > 32767 THEN 0 ELSE stonumFrom(str, i + 1, n)

\* stonum without the test against 32767
stonum_NoRangeTest(str) ==
    IF Len(str) > 5 THEN 0
    ELSE IF str = <<>> THEN 0
    ELSE 10 * stonum_NoRangeTest(SubSeq(str, 1, Len(str) - 1))
         + Ord(str[Len(str)]) - 48

\* stonum
stonum(str) == IF Len(str) > 5 THEN 0 ELSE stonumFrom(str, 1, 0)

-----------------------------------------------------------------------------
(* main *)

\* "ignore empty lines and comments": the test that makes a loop `continue`
Skipped(line) == line = <<>> \/ FindComment(line) # NPOS

\* Parser::advance for the line after `pos`: getline, then trim
CurrentLine == trim(lines[pos + 1])

\* Parser::hasMoreLines: eof is set by the getline that reads the last line
hasMoreLines == pos < Len(lines)

\* LabelPassTable without the contains() test: a label overwrites
LabelPassTable_Overwrite(map, line, addr) ==
    IF instructionType(line) = L_INSTRUCTION
    THEN addEntry(map, symbol(line), addr)
    ELSE map

\* first loop, the symbol table after one line that is not skipped
LabelPassTable(map, line, addr) ==
    IF instructionType(line) = L_INSTRUCTION /\ ~contains(map, symbol(line))
    THEN addEntry(map, symbol(line), addr)
    ELSE map

\* LabelPassAddress with the label taking an address of its own
LabelPassAddress_CountLabels(line, addr) == addr + 1

\* first loop, `address` after one line that is not skipped
LabelPassAddress(line, addr) ==
    IF instructionType(line) = L_INSTRUCTION THEN addr ELSE addr + 1

\* second loop, the symbol table after one line that is not skipped
VariablePassTable(map, line, addr) ==
    IF instructionType(line) = A_INSTRUCTION /\ ~contains(map, symbol(line))
    THEN IF AllisNum(symbol(line))
         THEN addEntry(map, symbol(line), stonum(symbol(line)))
         ELSE addEntry(map, symbol(line), addr)
    ELSE map

\* VariablePassAddress with a numeric literal taking a variable address
VariablePassAddress_CountLiterals(map, line, addr) ==
    IF instructionType(line) = A_INSTRUCTION /\ ~contains(map, symbol(line))
    THEN addr + 1
    ELSE addr

\* second loop, `address` after one line that is not skipped
VariablePassAddress(map, line, addr) ==
    IF /\ instructionType(line) = A_INSTRUCTION
       /\ ~contains(map, symbol(line))
       /\ ~AllisNum(symbol(line))
    THEN addr + 1
    ELSE addr

\* to_string((a >> i) & 1) for a >= 0
Bit(a, i) == IF (a \div (2 ^ i)) % 2 = 1 THEN "1" ELSE "0"

\* EncodeAddress with the bits appended, least significant first
EncodeAddress_Reversed(a) == <<"0">> \o [k \in 1..15 |-> Bit(a, k - 1)]

\* third loop, binaryCode of an A instruction whose symbol has address a:
\* bits 0..14 are prepended one by one, then "0"
EncodeAddress(a) == <<"0">> \o [k \in 1..15 |-> Bit(a, 15 - k)]

\* third loop, binaryCode of a C instruction
EncodeComputation(line) ==
    <<"1","1","1">> \o Code_comp(Parser_comp(line))
        \o Code_dest(Parser_dest(line)) \o Code_jump(Parser_jump(line))

\* third loop, binaryCode after one line that is not skipped; it stays empty
\* for an L instruction
BinaryCode(map, line) ==
    IF instructionType(line) = A_INSTRUCTION
    THEN EncodeAddress(getAddress(map, symbol(line)))
    ELSE IF instructionType(line) = C_INSTRUCTION
    THEN EncodeComputation(line)
    ELSE <<>>

\* third loop, the symbol table after one line that is not skipped
EmitPassTable(map, line) ==
    IF instructionType(line) = A_INSTRUCTION
    THEN AfterGetAddress(map, symbol(line))
    ELSE map

\* third loop, the output after one line that is not skipped
EmitPassOutput(out, map, line) ==
    IF BinaryCode(map, line) # <<>> THEN Append(out, BinaryCode(map, line))
    ELSE out

\* the state main() starts its first loop in
Start ==
    /\ pc = "pass1"
    /\ pos = 0
    /\ address = 0
    /\ symbolMap = InitSymbolMap
    /\ output = <<>>

\* one iteration of the first loop
Pass1Step ==
    /\ pc = "pass1"
    /\ hasMoreLines
    /\ pos' = pos + 1
    /\ symbolMap' = IF Skipped(CurrentLine) THEN symbolMap
                    ELSE LabelPassTable(symbolMap, CurrentLine, address)
    /\ address' = IF Skipped(CurrentLine) THEN address
                  ELSE LabelPassAddress(CurrentLine, address)
    /\ UNCHANGED <<lines, pc, output>>

\* between the first and the second loop
Pass1End ==
    /\ pc = "pass1"
    /\ ~hasMoreLines
    /\ pc' = "pass2"
    /\ pos' = 0
    /\ address' = 16
    /\ UNCHANGED <<lines, symbolMap, output>>

\* one iteration of the second loop
Pass2Step ==
    /\ pc = "pass2"
    /\ hasMoreLines
    /\ pos' = pos + 1
    /\ symbolMap' = IF Skipped(CurrentLine) THEN symbolMap
                    ELSE VariablePassTable(symbolMap, CurrentLine, address)
    /\ address' = IF Skipped(CurrentLine) THEN address
                  ELSE VariablePassAddress(symbolMap, CurrentLine, address)
    /\ UNCHANGED <<lines, pc, output>>

\* between the second and the third loop
Pass2End ==
    /\ pc = "pass2"
    /\ ~hasMoreLines
    /\ pc' = "pass3"
    /\ pos' = 0
    /\ UNCHANGED <<lines, address, symbolMap, output>>

\* one iteration of the third loop
Pass3Step ==
    /\ pc = "pass3"
    /\ hasMoreLines
    /\ pos' = pos + 1
    /\ symbolMap' = IF Skipped(CurrentLine) THEN symbolMap
                    ELSE EmitPassTable(symbolMap, CurrentLine)
    /\ output' = IF Skipped(CurrentLine) THEN output
                 ELSE EmitPassOutput(output, symbolMap, CurrentLine)
    /\ UNCHANGED <<lines, pc, address>>

\* after the third loop: the objects are deleted, the file is closed
Finish ==
    /\ pc = "pass3"
    /\ ~hasMoreLines
    /\ pc' = "done"
    /\ UNCHANGED <<lines, pos, address, symbolMap, output>>

Next ==
    \/ Pass1Step
    \/ Pass1End
    \/ Pass2Step
    \/ Pass2End
    \/ Pass3Step
    \/ Finish

-----------------------------------------------------------------------------
(* input files *)

\* the longest input file of Spec and SpecComments, in lines
MaxLen == 3

\* the sequences of 1..n elements of S
SeqsUpTo(S, n) == UNION {[1..k -> S] : k \in 1..n}

\* lines of label, address and computation instructions, a comment line and
\* a line of blanks
Vocabulary ==
    { <<"(","L",")">>, <<"(","E",")">>, <<"("," ","R","1",")">>,
      <<"@","L">>, <<"@","i">>, <<" ","@"," ","j">>, <<"@","R","1">>,
      <<"@","5">>, <<"D","=","A">>, <<"/","/","c">>, <<" "," ">> }

Init == lines \in SeqsUpTo(Vocabulary, MaxLen) /\ Start

Spec == Init /\ [][Next]_vars

\* the longest generated decimal literal of SpecLiterals, in digits
MaxDigits == 6

\* the digits the generated literals are written with
LiteralDigits == {"0", "3", "7"}

\* @literal lines: the generated literals, the two literals at the 15-bit
\* limit, and two predefined names with large addresses
LiteralLines ==
    {<<"@">> \o d : d \in SeqsUpTo(LiteralDigits, MaxDigits)}
    \cup { <<"@","3","2","7","6","7">>, <<"@","3","2","7","6","8">>,
           <<"@","S","C","R","E","E","N">>, <<"@","K","B","D">> }

\* what precedes the @literal line: nothing, a label or a reference of the
\* same spelling as a literal, a variable
LiteralPrefixes ==
    { <<>>, << <<"(","7",")">> >>, << <<"@","7">> >>, << <<"@","x">> >> }

InitLiterals ==
    /\ lines \in {p \o <<l>> : p \in LiteralPrefixes, l \in LiteralLines}
    /\ Start

SpecLiterals == InitLiterals /\ [][Next]_vars

\* the absent dest or jump field
null == <<"n","u","l","l">>

\* the text of a computation line with the fields d, c and j
ComputationLine(d, c, j) ==
    (IF d = null THEN <<>> ELSE d \o <<"=">>) \o c
        \o (IF j = null THEN <<>> ELSE <<";">> \o j)

\* dest fields: none, every ordering of every set of registers, and one
\* that names no register
DestFields ==
    { null, <<"M">>, <<"D">>, <<"A">>,
      <<"M","D">>, <<"D","M">>, <<"A","M">>, <<"M","A">>, <<"A","D">>, <<"D","A">>,
      <<"A","M","D">>, <<"A","D","M">>, <<"M","A","D">>, <<"M","D","A">>,
      <<"D","A","M">>, <<"D","M","A">>, <<"X">> }

\* comp fields: the 28 mnemonics, and one that is no mnemonic
CompFields == DOMAIN compMap \cup { <<"D","+","D">> }

\* jump fields: none, the 7 mnemonics, and one that is no mnemonic
JumpFields == DOMAIN jumpMap \cup { <<"J","X","X">> }

\* what follows the computation line: nothing, or one more instruction
ComputationSuffixes == { <<>>, << <<"@","2">> >>, << <<"D","=","A">> >> }

InitComputations ==
    /\ lines \in {<<ComputationLine(d, c, j)>> \o t :
                     d \in DestFields, c \in CompFields, j \in JumpFields,
                     t \in ComputationSuffixes}
    /\ Start

SpecComputations == InitComputations /\ [][Next]_vars

\* instruction lines with and without a comment after the instruction text,
\* a comment line and an empty line
CommentVocabulary ==
    { <<"D","=","A">>, <<"D","=","A"," ","/","/","c">>,
      <<"@","5">>, <<"@","5","/","/","c">>,
      <<"(","L",")">>, <<"(","L",")"," ","/","/","c">>,
      <<"/","/","c">>, <<>> }

InitComments == lines \in SeqsUpTo(CommentVocabulary, MaxLen) /\ Start

SpecComments == InitComments /\ [][Next]_vars

-----------------------------------------------------------------------------
(* the vocabulary of the specification, in which the properties are stated *)

\* a line with its whitespace removed
Normalized(l) == SelectSeq(l, LAMBDA c : c # " ")

Has(l, c) == \E i \in 1..Len(l) : l[i] = c

Range(f) == {f[i] : i \in DOMAIN f}

\* blank, or beginning with the comment marker
IsBlankOrComment(l) ==
    Normalized(l) = <<>>
    \/ (Len(Normalized(l)) >= 2 /\ SubSeq(Normalized(l), 1, 2) = <<"/","/">>)

\* the three kinds of instruction line
IsAddressRef(l) == ~IsBlankOrComment(l) /\ Has(l, "@")

IsLabel(l) ==
    ~IsBlankOrComment(l) /\ ~Has(l, "@") /\ Has(l, "(") /\ Has(l, ")")

IsComputation(l) == ~IsBlankOrComment(l) /\ ~IsAddressRef(l) /\ ~IsLabel(l)

\* the symbol of @symbol: what follows the first @
AddressName(l) ==
    LET n == Normalized(l)
        at == CHOOSE i \in 1..Len(n) : n[i] = "@" /\ \A j \in 1..(i-1) : n[j] # "@"
    IN  SubSeq(n, at + 1, Len(n))

\* the symbol of (symbol): what stands between the parentheses
LabelName(l) ==
    LET n == Normalized(l)
        open == CHOOSE i \in 1..Len(n) : n[i] = "(" /\ \A j \in 1..(i-1) : n[j] # "("
        close == CHOOSE i \in 1..Len(n) : n[i] = ")" /\ \A j \in 1..(i-1) : n[j] # ")"
    IN  SubSeq(n, open + 1, close - 1)

\* the 23 predefined names
Predefined == DOMAIN InitSymbolMap

\* the names the file declares as labels
Labels == {LabelName(lines[i]) : i \in {j \in 1..Len(lines) : IsLabel(lines[j])}}

\* the address and computation lines among the first i lines of the file
InstructionsUpTo(i) ==
    Cardinality({j \in 1..i : IsAddressRef(lines[j]) \/ IsComputation(lines[j])})

DecimalDigits == <<"0","1","2","3","4","5","6","7","8","9">>

IsDecimal(n) == n # <<>> /\ \A i \in 1..Len(n) : n[i] \in Range(DecimalDigits)

\* the value of a string of decimal digits
RECURSIVE DecimalValue(_)
DecimalValue(n) ==
    IF n = <<>> THEN 0
    ELSE 10 * DecimalValue(SubSeq(n, 1, Len(n) - 1))
         + (CHOOSE d \in 0..9 : DecimalDigits[d + 1] = n[Len(n)])

\* the value of a string of bits, most significant bit first
RECURSIVE BinaryValue(_)
BinaryValue(b) ==
    IF b = <<>> THEN 0
    ELSE 2 * BinaryValue(SubSeq(b, 1, Len(b) - 1))
         + (IF b[Len(b)] = "1" THEN 1 ELSE 0)

IsBinary(b) == \A i \in 1..Len(b) : b[i] \in {"0", "1"}

\* a name that is to become a variable
IsVariableName(n) == n \notin Predefined /\ ~IsDecimal(n) /\ n \notin Labels

\* the distinct variables of the first i lines, in the order of first reference
RECURSIVE VariablesUpTo(_)
VariablesUpTo(i) ==
    IF i = 0 THEN <<>>
    ELSE LET v == VariablesUpTo(i - 1)
         IN  IF /\ IsAddressRef(lines[i])
                /\ IsVariableName(AddressName(lines[i]))
                /\ AddressName(lines[i]) \notin Range(v)
             THEN Append(v, AddressName(lines[i]))
             ELSE v

Variables == VariablesUpTo(Len(lines))

\* the lines the third pass has gone through
Emitted == IF pc = "done" THEN 1..Len(lines)
           ELSE IF pc = "pass3" THEN 1..pos ELSE {}

-----------------------------------------------------------------------------
(* C1: label resolution *)

\* C1, as stated: once pass 1 is over, every Label line (X) has X in the
\* symbol table at the number of address and computation lines before it.
C1_EveryLabelLine ==
    pc # "pass1" =>
        \A i \in 1..Len(lines) : IsLabel(lines[i]) =>
            /\ LabelName(lines[i]) \in DOMAIN symbolMap
            /\ symbolMap[LabelName(lines[i])] = InstructionsUpTo(i)

\* a Label line that declares a name no earlier Label line declares and that
\* is not predefined
IsFirstDeclaration(i) ==
    /\ IsLabel(lines[i])
    /\ LabelName(lines[i]) \notin Predefined
    /\ \A j \in 1..(i-1) : IsLabel(lines[j]) => LabelName(lines[j]) # LabelName(lines[i])

\* C1, amended: once pass 1 is over, and for the rest of the run, every Label
\* line (X) that is the first to declare X, X not being a predefined name, has
\* X in the symbol table at the number of address and computation lines
\* before it; Label lines do not advance the counter, which starts at 0.
C1_FirstLabelLine ==
    pc # "pass1" =>
        \A i \in 1..Len(lines) : IsFirstDeclaration(i) =>
            /\ LabelName(lines[i]) \in DOMAIN symbolMap
            /\ symbolMap[LabelName(lines[i])] = InstructionsUpTo(i)

\* the run is over for a file whose label follows a label line and an
\* instruction
C1_Witness ==
    /\ pc = "done"
    /\ \E i \in 1..Len(lines) :
        /\ IsFirstDeclaration(i)
        /\ InstructionsUpTo(i) = 1
        /\ \E j \in 1..(i-1) : IsLabel(lines[j])
        /\ symbolMap[LabelName(lines[i])] = 1

-----------------------------------------------------------------------------
(* C2: variable allocation *)

\* the place in the output of the line that line i of the file produces
OutIndex(i) == InstructionsUpTo(i)

\* C2: once pass 2 is over, the k-th distinct variable in the order of first
\* reference has address 16 + (k - 1), the counter has advanced by the
\* number of variables only, and every reference pass 3 has emitted, the
\* later ones included, carries the address of its variable.
C2_VariableAllocation ==
    pc \in {"pass3", "done"} =>
        /\ \A k \in 1..Len(Variables) :
            /\ Variables[k] \in DOMAIN symbolMap
            /\ symbolMap[Variables[k]] = 16 + (k - 1)
        /\ address = 16 + Len(Variables)
        /\ \A i \in Emitted : \A k \in 1..Len(Variables) :
            (IsAddressRef(lines[i]) /\ AddressName(lines[i]) = Variables[k]) =>
                /\ OutIndex(i) <= Len(output)
                /\ BinaryValue(output[OutIndex(i)]) = 16 + (k - 1)

\* the run is over for a file with two variables, the first referred to twice
C2_Witness ==
    /\ pc = "done"
    /\ Len(Variables) = 2
    /\ \E i, j \in 1..Len(lines) :
        /\ i < j
        /\ IsAddressRef(lines[i]) /\ AddressName(lines[i]) = Variables[1]
        /\ IsAddressRef(lines[j]) /\ AddressName(lines[j]) = Variables[1]
    /\ symbolMap[Variables[2]] = 17

-----------------------------------------------------------------------------
(* C10: the symbol table only grows *)

\* C10: the predefined names keep their addresses; a step removes no name
\* and changes no address; a step of pass 3 leaves the table as it is.
C10_TableMonotone ==
    /\ [](\A n \in Predefined :
            n \in DOMAIN symbolMap /\ symbolMap[n] = InitSymbolMap[n])
    /\ [][/\ \A n \in DOMAIN symbolMap :
                n \in DOMAIN symbolMap' /\ symbolMap'[n] = symbolMap[n]
          /\ pc = "pass3" => symbolMap' = symbolMap]_vars

\* the run is over for a file that declares a predefined name as a label,
\* after an instruction, and refers to a symbol
C10_Witness ==
    /\ pc = "done"
    /\ \E i \in 1..Len(lines) :
        /\ IsLabel(lines[i])
        /\ LabelName(lines[i]) \in Predefined
        /\ InstructionsUpTo(i) # InitSymbolMap[LabelName(lines[i])]
    /\ \E i \in 1..Len(lines) :
        IsAddressRef(lines[i]) /\ AddressName(lines[i]) \notin Predefined

-----------------------------------------------------------------------------
(* C6: the address instruction carries the address *)

-----------------------------------------------------------------------------
(* C9: numeric literals *)

\* the address the policy gives a decimal literal
LiteralAddress(n) ==
    IF Len(n) <= 5 /\ DecimalValue(n) <= 32767 THEN DecimalValue(n) ELSE 0

\* C9: a step of pass 2 on an @s line, s made of decimal digits only and
\* not in the symbol table, records for s its decimal value when s has at
\* most 5 digits and the value is at most 32767, and 0 otherwise; the run
\* goes on and the variable counter stays as it is.
C9_LiteralPolicy ==
    [][(/\ pc = "pass2"
        /\ hasMoreLines
        /\ IsAddressRef(lines[pos + 1])
        /\ IsDecimal(AddressName(lines[pos + 1]))
        /\ AddressName(lines[pos + 1]) \notin DOMAIN symbolMap) =>
           /\ AddressName(lines[pos + 1]) \in DOMAIN symbolMap'
           /\ symbolMap'[AddressName(lines[pos + 1])]
                  = LiteralAddress(AddressName(lines[pos + 1]))
           /\ address' = address
           /\ pc' = "pass2"]_vars

\* pass 2 is over for a file whose literal has 5 digits and a value above
\* 32767, and the table holds 0 for it
C9_Witness ==
    /\ pc = "pass3"
    /\ \E i \in 1..Len(lines) :
        /\ IsAddressRef(lines[i])
        /\ IsDecimal(AddressName(lines[i]))
        /\ Len(AddressName(lines[i])) = 5
        /\ DecimalValue(AddressName(lines[i])) > 32767
        /\ symbolMap[AddressName(lines[i])] = 0

-----------------------------------------------------------------------------
(* the tables of the specification *)

\* comp, in its register-operand form
TableComp ==
    <<"0">> :> <<"1","0","1","0","1","0">> @@
    <<"D","+","1">> :> <<"0","1","1","1","1","1">> @@
    <<"D","-","A">> :> <<"0","1","0","0","1","1">> @@
    <<"1">> :> <<"1","1","1","1","1","1">> @@
    <<"A","+","1">> :> <<"1","1","0","1","1","1">> @@
    <<"A","-","D">> :> <<"0","0","0","1","1","1">> @@
    <<"-","1">> :> <<"1","1","1","0","1","0">> @@
    <<"D","-","1">> :> <<"0","0","1","1","1","0">> @@
    <<"D","&","A">> :> <<"0","0","0","0","0","0">> @@
    <<"D">> :> <<"0","0","1","1","0","0">> @@
    <<"A","-","1">> :> <<"1","1","0","0","1","0">> @@
    <<"D","|","A">> :> <<"0","1","0","1","0","1">> @@
    <<"A">> :> <<"1","1","0","0","0","0">> @@
    <<"D","+","A">> :> <<"0","0","0","0","1","0">> @@
    <<"!","D">> :> <<"0","0","1","1","0","1">> @@
    <<"-","D">> :> <<"0","0","1","1","1","1">> @@
    <<"!","A">> :> <<"1","1","0","0","0","1">> @@
    <<"-","A">> :> <<"1","1","0","0","1","1">>

TableDest ==
    <<"n","u","l","l">> :> <<"0","0","0">> @@
    <<"M">> :> <<"0","0","1">> @@
    <<"D">> :> <<"0","1","0">> @@
    <<"M","D">> :> <<"0","1","1">> @@
    <<"A">> :> <<"1","0","0">> @@
    <<"A","M">> :> <<"1","0","1">> @@
    <<"A","D">> :> <<"1","1","0">> @@
    <<"A","M","D">> :> <<"1","1","1">>

TableJump ==
    <<"n","u","l","l">> :> <<"0","0","0">> @@
    <<"J","G","T">> :> <<"0","0","1">> @@
    <<"J","E","Q">> :> <<"0","1","0">> @@
    <<"J","G","E">> :> <<"0","1","1">> @@
    <<"J","L","T">> :> <<"1","0","0">> @@
    <<"J","N","E">> :> <<"1","0","1">> @@
    <<"J","L","E">> :> <<"1","1","0">> @@
    <<"J","M","P">> :> <<"1","1","1">>

\* the register-operand form of a comp mnemonic: A for M
RegisterForm(c) == [k \in 1..Len(c) |-> IF c[k] = "M" THEN "A" ELSE c[k]]

\* the register-operand mnemonics and their memory-operand forms
ValidComps ==
    DOMAIN TableComp
    \cup {[k \in 1..Len(c) |-> IF c[k] = "A" THEN "M" ELSE c[k]] : c \in DOMAIN TableComp}

\* '111' + s + c + d + j
TableEncoding(d, c, j) ==
    <<"1","1","1">> \o (IF Has(c, "M") THEN <<"1">> ELSE <<"0">>)
        \o TableComp[RegisterForm(c)] \o TableDest[d] \o TableJump[j]

\* the input files whose first line is a computation line with all three
\* fields taken from the tables
InitTableComputations ==
    /\ lines \in {<<ComputationLine(d, c, j)>> \o t :
                     d \in DOMAIN TableDest, c \in ValidComps,
                     j \in DOMAIN TableJump, t \in ComputationSuffixes}
    /\ Start

SpecTableComputations == InitTableComputations /\ [][Next]_vars

\* the orderings of the non-empty sets of destination registers
DestOrderings == {d \in DestFields : Range(d) \subseteq {"A", "D", "M"}}

\* the dest mnemonic the table has for a set of registers
TableDestOf(set) == CHOOSE d \in DOMAIN TableDest \ {null} : Range(d) = set

\* a field that its table lacks
UnknownField(l) ==
    \/ Parser_dest(Normalized(l)) \notin DOMAIN destMap
    \/ Parser_comp(Normalized(l)) \notin DOMAIN compMap
    \/ Parser_jump(Normalized(l)) \notin DOMAIN jumpMap

-----------------------------------------------------------------------------
(* C3: computation encoding *)

\* C3: the line emitted for dest=comp;jump, with dest, comp and jump taken
\* from the tables, is '111' + s + c + d + j and has 16 characters.
C3_ComputationEncoding ==
    \A d \in DOMAIN TableDest, c \in ValidComps, j \in DOMAIN TableJump :
        (pc = "done" /\ lines[1] = ComputationLine(d, c, j)) =>
            /\ Len(output) >= 1
            /\ Len(output[1]) = 16
            /\ output[1] = TableEncoding(d, c, j)

-----------------------------------------------------------------------------
(* C4: unknown mnemonics *)

\* C4: once pass 3 has gone through a Computation line with a field its
\* table lacks, the run does not complete, and the output holds no line
\* for that instruction nor for a later one.
C4_UnknownMnemonicFatal ==
    \A i \in Emitted :
        (IsComputation(lines[i]) /\ UnknownField(lines[i])) =>
            /\ pc # "done"
            /\ Len(output) <= InstructionsUpTo(i - 1)

-----------------------------------------------------------------------------
(* C5: the shape of the output *)

\* the line the tables and the symbol table give for an instruction line
ExpectedLine(l) ==
    IF IsAddressRef(l)
    THEN <<"0">> \o [k \in 1..15 |->
             IF (symbolMap[AddressName(l)] \div (2 ^ (15 - k))) % 2 = 1
             THEN "1" ELSE "0"]
    ELSE LET n == Normalized(l)
         IN  <<"1","1","1">>
                 \o (IF Has(Parser_comp(n), "M") THEN <<"1">> ELSE <<"0">>)
                 \o Lookup(TableComp, RegisterForm(Parser_comp(n)))
                 \o Lookup(TableDest, Parser_dest(n))
                 \o Lookup(TableJump, Parser_jump(n))

\* C5: when the run is over the output has one line for each address or
\* computation line of the file, in their order, none for the other lines,
\* and every line of it is 16 characters, each "0" or "1".
C5_OutputShape ==
    pc = "done" =>
        /\ Len(output) = InstructionsUpTo(Len(lines))
        /\ \A k \in 1..Len(output) : Len(output[k]) = 16 /\ IsBinary(output[k])
        /\ \A i \in 1..Len(lines) :
            (IsAddressRef(lines[i]) \/ IsComputation(lines[i])) =>
                /\ OutIndex(i) <= Len(output)
                /\ output[OutIndex(i)] = ExpectedLine(lines[i])

-----------------------------------------------------------------------------
(* C7: the order of the destination registers *)

\* C7: for the dest field p of the computation line, an ordering of a set
\* of registers, the lookup gives the code of the table for the set, and
\* gives it for every other ordering q of the set; the emitted line
\* carries it.
C7_DestOrderInsensitive ==
    \A p \in DestOrderings :
        (pc = "done" /\ Parser_dest(Normalized(lines[1])) = p) =>
            /\ Code_dest(p) = TableDest[TableDestOf(Range(p))]
            /\ \A q \in DestOrderings :
                   Range(q) = Range(p) => Code_dest(q) = Code_dest(p)
            /\ Len(output) >= 1
            /\ Len(output[1]) >= 13
            /\ SubSeq(output[1], Len(output[1]) - 5, Len(output[1]) - 3)
                   = TableDest[TableDestOf(Range(p))]

-----------------------------------------------------------------------------
(* C8: the lines that are skipped *)

\* C8: a line is skipped if and only if it is blank or begins with the
\* comment marker: pass 1 counts every other address or computation line,
\* pass 2 gives every other @symbol line's symbol an address, pass 3 emits a
\* line for every other address or computation line.
C8_LineFiltering ==
    /\ (pc = "pass1" => address = InstructionsUpTo(pos))
    /\ (pc = "pass2" =>
           \A i \in 1..pos : IsAddressRef(lines[i]) =>
               symbol(Normalized(lines[i])) \in DOMAIN symbolMap)
    /\ (pc = "pass3" => Len(output) = InstructionsUpTo(pos))

=============================================================================
